---- MODULE Spec2Model ----
(***************************************************************************)
(* Featherbone server (src/server.js): change distribution and record      *)
(* locking.  The model covers the push-notification receiver and its       *)
(* fetch queue (pending / isFetching / processFetch), the event-session    *)
(* registry populated by the web-socket handlers (handleEvents), the       *)
(* event keys issued by doConnect, the lock / unlock / subscribe requests  *)
(* forwarded to the datasource, the tenant listeners (listenToTenants and  *)
(* the handler of subscribeToTenants), the handlers of subscribeToFeathers *)
(* and subscribeToCatalog with the catalog copy, and sign-out with the     *)
(* session timer.                                                          *)
(***************************************************************************)
EXTENDS Integers, Sequences, FiniteSets, TLC

\* ------------------------------------------------------------------------
\* Bounds of the model
\* ------------------------------------------------------------------------
MaxChanges == 2
MaxLockOps == 2
MaxListenFails == 1
MaxDrops == 1

\* ------------------------------------------------------------------------
\* Universe
\* ------------------------------------------------------------------------
Tenants == {"T1", "T2"}
\* database the datasource uses when a call names no tenant
DefaultTenant == "T1"
Tables == {"contact", "task"}
Ids == {"R1"}
ClientKeys == {"k1", "k2"}
CatalogKey == "kcat"
InvalidKey == "kx"
NoKey == "undefined"
Channels == {"w1", "w2"}
SessionIDs == {"s1"}
Users == {"u1", "u2"}
Changes == {"create", "update", "delete"}
\* event keys of the handlers subscribeToTenants and subscribeToFeathers
\* register
TenantKey == "kten"
FeatherKey == "kfea"
AllKeys == ClientKeys \cup {CatalogKey, InvalidKey, TenantKey, FeatherKey}
\* a tenant database added while the server runs
NewTenant == "T3"
AllTenants == Tenants \cup {NewTenant}
\* order in which datasource.loadTenants lists the tenants
TenantOrder == <<"T1", "T2", "T3">>
\* web sockets in the order they connect
SocketOrder == <<"w1", "w2">>

\* String.prototype.toCamelCase(true) on the table names of the model
toCamelCase(table) ==
    CASE table = "contact" -> "Contact"
      [] table = "task" -> "Task"
      [] table = "feather" -> "Feather"
      [] table = "tenant" -> "Tenant"
      [] OTHER -> table

\* tables of the default database whose changes the server itself
\* subscribes to
MetaTables == {"feather", "tenant"}
Names == {toCamelCase(tb) : tb \in Tables} \cup {"Feather", "Tenant"}
\* ids of rows: a tenant row is identified by the tenant
RowIds == Ids \cup AllTenants

VARIABLES
    eventKeys,      \* key -> {sessionID, tenant} issued by doConnect
    eventSessions,  \* key -> handler function
    chan,           \* web sockets: state, eKey of the connection closure, url
    subs,           \* subscription rows held by the tenant databases
    locks,          \* lock rows held by the tenant databases
    lockResp,       \* response to the last lock request
    store,          \* tenant -> record -> version and presence of the row
    listenQ,        \* tenant -> notifications emitted, not yet received
    pending,        \* server.js pending
    isFetching,     \* server.js isFetching
    outstanding,    \* requests issued by processFetch, not yet settled
    reqCount,       \* requests issued by processFetch, per name and id
    invoked,        \* handler invocations of the last receiver / fetch step
    nChanges, nNotes, nLockOps,
    tenants,        \* server.js tenants
    configured,     \* tenants of the tenant table
    listeners,      \* tenant -> listeners established by datasource.listen
    runs,           \* listenToTenants calls suspended at an await
    exited,         \* the process has exited
    down,           \* tenants whose notification channel has dropped
    nListenFails, nDrops,
    routeRegs,      \* feather -> calls of registerDataRoute
    featherReqs,    \* getFeather requests of the Feather handler
    catalog,        \* feathers of settings.data.catalog.data
    catalogReqs,    \* datasource.getCatalog() calls not yet settled
    sessions        \* session id -> its inactivity timer (server.js
                    \* sessions) and whether the session exists

tenantVars == <<tenants, configured, listeners, runs, exited, down,
                nListenFails, nDrops>>
featherVars == <<routeRegs, featherReqs, catalog, catalogReqs>>

vars == <<eventKeys, eventSessions, chan, subs, locks, lockResp, store,
          listenQ, pending, isFetching, outstanding, reqCount, invoked,
          nChanges, nNotes, nLockOps, tenantVars, featherVars, sessions>>

FetchKeys == {k \in [name : Names, id : RowIds] :
                 (k.name = "Tenant") = (k.id \in AllTenants)}
RecKeys == [table : Tables, id : Ids]
\* rows of the feather table of the default database
FeatherRows == [table : {"feather"}, id : Ids]
\* rows of the tenant databases
Rows == {x \in [tenant : Tenants, key : RecKeys] :
            x.tenant = DefaultTenant \/ x.key.table = "contact"}

NoSession == [kind |-> "none", ws |-> "none", sessionID |-> "none",
              fetch |-> TRUE]
NoIssue == [sessionID |-> "none", tenant |-> "none"]
NoRow == [found |-> FALSE, tenant |-> "none", name |-> "none",
          id |-> "none", ver |-> 0]
NoLock == [tenant |-> "none", id |-> "none", username |-> "none",
           eventKey |-> "none", time |-> 0]

\* subscribeToCatalog: eventSessions[eKey] = function ...; .fetch = false.
CatalogHandler == [kind |-> "catalog", ws |-> "none", sessionID |-> "none",
                   fetch |-> FALSE]

\* subscribeToTenants: eventSessions[eKey] = async function ...
TenantHandler == [kind |-> "tenant", ws |-> "none", sessionID |-> "none",
                  fetch |-> TRUE]

\* subscribeToFeathers: eventSessions[eKey] = function (message) ...
FeatherHandler == [kind |-> "feather", ws |-> "none", sessionID |-> "none",
                   fetch |-> TRUE]

\* handlers registered by the startup chain
StartupHandler(k) ==
    CASE k = CatalogKey -> CatalogHandler
      [] k = TenantKey -> TenantHandler
      [] k = FeatherKey -> FeatherHandler
      [] OTHER -> NoSession

\* handleEvents: eventSessions[eKey] = function (message) {ws.send(...)}
WsHandler(w, sid) == [kind |-> "ws", ws |-> w, sessionID |-> sid,
                      fetch |-> TRUE]

\* datasource.loadTenants(): the tenants of the tenant table
loadTenants(conf) == SelectSeq(TenantOrder, LAMBDA t : t \in conf)

\* a call of listenToTenants suspended at await datasource.listen of
\* tenants[n]; src is the caller, start() or the Tenant handler
ListenRun(src, n, t) == [src |-> src, pc |-> "listen", n |-> n, t |-> t]

\* the state of the server but for the tenant listeners
InitServer ==
    /\ eventKeys = [k \in ClientKeys |-> NoIssue]
    /\ eventSessions = [k \in AllKeys |-> StartupHandler(k)]
    /\ chan = [w \in Channels |->
                 [state |-> "idle", eKey |-> NoKey, url |-> "none",
                  reply |-> "none"]]
    /\ subs = {}
    /\ locks = {}
    /\ lockResp = [result |-> "none", request |-> NoLock, lock |-> NoLock]
    /\ store = [t \in Tenants |-> [r \in RecKeys \cup FeatherRows |->
                  [ver |-> 0, live |-> r.table \in {"contact", "feather"}]]]
    /\ listenQ = [t \in Tenants |-> <<>>]
    /\ pending = <<>>
    /\ isFetching = FALSE
    /\ outstanding = {}
    /\ reqCount = [k \in FetchKeys |-> 0]
    /\ invoked = <<>>
    /\ nChanges = 0
    /\ nNotes = 0
    /\ nLockOps = 0
    /\ configured = Tenants
    /\ tenants = loadTenants(Tenants)
    /\ exited = FALSE
    /\ down = {}
    /\ nListenFails = 0
    /\ nDrops = 0
    /\ routeRegs = [n \in Ids \cup {NoKey} |-> 0]
    /\ featherReqs = {}
    /\ catalog = Ids
    /\ catalogReqs = 0
    /\ sessions = [sid \in SessionIDs |->
                     [timer |-> "none", live |-> TRUE]]

\* start() has listened to every tenant and serves requests
Init ==
    /\ InitServer
    /\ listeners = [t \in AllTenants |-> IF t \in Tenants THEN 1 ELSE 0]
    /\ runs = <<>>

\* start() calls listenToTenants, which awaits the listener of tenants[0]
InitStart ==
    /\ InitServer
    /\ listeners = [t \in AllTenants |-> 0]
    /\ runs = <<ListenRun("start", 1, TenantOrder[1])>>

\* ------------------------------------------------------------------------
\* datasource (server/datasource.js): lock store and subscription rows
\* ------------------------------------------------------------------------
LockOf(lk, t, id) == {l \in lk : l.tenant = t /\ l.id = id}

\* datasource.lock that takes the lock without looking for a holder
DatasourceLockNoCheck(lk, id, username, eventKey, tenant, time) ==
    LET new == [tenant |-> tenant, id |-> id, username |-> username,
                eventKey |-> eventKey, time |-> time]
    IN  [locks |-> lk \cup {new}, result |-> "ok", lock |-> new]

\* datasource.lock(id, username, eventKey, client, isTransaction, tenant)
DatasourceLock(lk, id, username, eventKey, tenant, time) ==
    LET held == LockOf(lk, tenant, id)
        new == [tenant |-> tenant, id |-> id, username |-> username,
                eventKey |-> eventKey, time |-> time]
    IN  IF held = {}
        THEN [locks |-> lk \cup {new}, result |-> "ok", lock |-> new]
        ELSE LET cur == CHOOSE l \in held : TRUE
             IN  IF cur.eventKey = eventKey /\ cur.username = username
                 THEN [locks |-> lk, result |-> "ok", lock |-> cur]
                 ELSE [locks |-> lk, result |-> "LockHeld", lock |-> cur]

\* a criteria field left undefined matches every lock
Matches(l, criteria) ==
    /\ criteria.id \in {NoKey, l.id}
    /\ criteria.username \in {NoKey, l.username}
    /\ criteria.eventKey \in {NoKey, l.eventKey}

\* datasource.unlock(criteria, client, tenant): tenant undefined selects
\* the default database
DatasourceUnlock(lk, criteria, tenant) ==
    LET db == IF tenant = NoKey THEN DefaultTenant ELSE tenant
    IN  {l \in lk : ~(l.tenant = db /\ Matches(l, criteria))}

\* datasource.unsubscribe(id, "instance", tenant)
DatasourceUnsubscribe(sb, eKey, tenant) ==
    {s \in sb : ~(s.tenant = tenant /\ s.eventKey = eKey)}

\* ------------------------------------------------------------------------
\* HTTP handlers
\* ------------------------------------------------------------------------
Issued(key) == key \in ClientKeys /\ eventKeys[key] # NoIssue

\* f.createId(): a key not handed out before
KeyOrder == <<"k1", "k2">>
createId == KeyOrder[CHOOSE i \in 1..Len(KeyOrder) :
                        /\ ~Issued(KeyOrder[i])
                        /\ \A j \in 1..(i - 1) : Issued(KeyOrder[j])]

\* doConnect
DoConnect(sid, t, keys) ==
    /\ ~exited
    /\ sessions[sid].live
    /\ \E k \in ClientKeys : ~Issued(k)
    /\ createId \in keys
    /\ eventKeys' = [eventKeys EXCEPT ![createId] =
                        [sessionID |-> sid, tenant |-> t]]
    /\ UNCHANGED <<eventSessions, chan, subs, locks, lockResp, store,
                   listenQ, pending, isFetching, outstanding, reqCount,
                   invoked, nChanges,
                   nNotes, nLockOps>>
    /\ UNCHANGED <<tenantVars, featherVars, sessions>>

\* doSubscribe: a subscription row for the event key in the request's tenant
DoSubscribe(t, key) ==
    /\ ~exited
    /\ subs' = subs \cup {[tenant |-> t, eventKey |-> key]}
    /\ UNCHANGED <<eventKeys, eventSessions, chan, locks, lockResp, store,
                   listenQ, pending, isFetching, outstanding, reqCount,
                   invoked, nChanges,
                   nNotes, nLockOps>>
    /\ UNCHANGED <<tenantVars, featherVars, sessions>>

\* doLock
DoLock(t, id, username, eventKey) ==
    /\ ~exited
    /\ nLockOps < MaxLockOps
    /\ nLockOps' = nLockOps + 1
    /\ LET r == DatasourceLock(locks, id, username, eventKey, t,
                               nLockOps + 1)
       IN  /\ locks' = r.locks
           /\ lockResp' = [result |-> r.result,
                           request |-> [tenant |-> t, id |-> id,
                                        username |-> username,
                                        eventKey |-> eventKey, time |-> 0],
                           lock |-> r.lock]
    /\ UNCHANGED <<eventKeys, eventSessions, chan, subs, store,
                   listenQ, pending, isFetching, outstanding, reqCount,
                   invoked, nChanges,
                   nNotes>>
    /\ UNCHANGED <<tenantVars, featherVars, sessions>>

\* doUnlock: criteria = {id, username}.  The request names no event key;
\* by is the event key of the client instance that sent it.
DoUnlock(t, id, username, by) ==
    /\ ~exited
    /\ nLockOps < MaxLockOps
    /\ nLockOps' = nLockOps + 1
    /\ locks' = DatasourceUnlock(locks,
                    [id |-> id, username |-> username, eventKey |-> NoKey],
                    t)
    /\ lockResp' = [result |-> "unlocked",
                    request |-> [tenant |-> t, id |-> id,
                                 username |-> username,
                                 eventKey |-> by, time |-> 0],
                    lock |-> NoLock]
    /\ UNCHANGED <<eventKeys, eventSessions, chan, subs, store,
                   listenQ, pending, isFetching, outstanding, reqCount,
                   invoked, nChanges,
                   nNotes>>
    /\ UNCHANGED <<tenantVars, featherVars, sessions>>

\* ------------------------------------------------------------------------
\* handleEvents: web socket connection, message and close
\* ------------------------------------------------------------------------
WsConnect(w, t) ==
    /\ ~exited
    /\ chan[w].state = "idle"
    /\ \E i \in 1..Len(SocketOrder) :
          /\ SocketOrder[i] = w
          /\ \A j \in 1..(i - 1) : chan[SocketOrder[j]].state # "idle"
    /\ chan' = [chan EXCEPT ![w] = [state |-> "open", eKey |-> NoKey,
                                    url |-> t, reply |-> "none"]]
    /\ UNCHANGED <<eventKeys, eventSessions, subs, locks, lockResp, store,
                   listenQ, pending, isFetching, outstanding, reqCount,
                   invoked, nChanges,
                   nNotes, nLockOps>>
    /\ UNCHANGED <<tenantVars, featherVars, sessions>>

\* the message handler registering whatever key it is sent
WsMessageNoCheck(w, key) ==
    /\ ~exited
    /\ chan[w].state = "open"
    /\ eventSessions' = [eventSessions EXCEPT ![key] =
                            WsHandler(w, IF key \in ClientKeys
                                         THEN eventKeys[key].sessionID
                                         ELSE "none")]
    /\ chan' = [chan EXCEPT ![w].eKey = key]
    /\ UNCHANGED <<eventKeys, subs, locks, lockResp, store,
                   listenQ, pending, isFetching, outstanding, reqCount,
                   invoked, nChanges,
                   nNotes, nLockOps>>
    /\ UNCHANGED <<tenantVars, featherVars, sessions>>

\* ws.on("message"): the key sent is registered if doConnect issued it
WsMessage(w, key) ==
    /\ ~exited
    /\ chan[w].state = "open"
    /\ IF Issued(key)
       THEN /\ eventSessions' = [eventSessions EXCEPT ![key] =
                                    WsHandler(w, eventKeys[key].sessionID)]
            /\ chan' = [chan EXCEPT ![w].eKey = key]
       ELSE /\ chan' = [chan EXCEPT ![w].eKey = key,
                                    ![w].reply = "Invalid event key"]
            /\ UNCHANGED eventSessions
    /\ UNCHANGED <<eventKeys, subs, locks, lockResp, store,
                   listenQ, pending, isFetching, outstanding, reqCount,
                   invoked, nChanges,
                   nNotes, nLockOps>>
    /\ UNCHANGED <<tenantVars, featherVars, sessions>>

WsClose(w) ==
    /\ ~exited
    /\ chan[w].state = "open"
    /\ LET eKey == chan[w].eKey
           tenant == chan[w].url
       IN  /\ eventSessions' =
                 IF eKey \in DOMAIN eventSessions
                 THEN [eventSessions EXCEPT ![eKey] = NoSession]
                 ELSE eventSessions
           /\ subs' = DatasourceUnsubscribe(subs, eKey, tenant)
           /\ locks' = DatasourceUnlock(locks,
                           [id |-> NoKey, username |-> NoKey,
                            eventKey |-> eKey], NoKey)
    /\ chan' = [chan EXCEPT ![w].state = "closed"]
    /\ UNCHANGED <<eventKeys, lockResp, store,
                   listenQ, pending, isFetching, outstanding, reqCount,
                   invoked, nChanges,
                   nNotes, nLockOps>>
    /\ UNCHANGED <<tenantVars, featherVars, sessions>>

\* ------------------------------------------------------------------------
\* Tenant databases: a change to a row notifies the subscribed event keys
\* ------------------------------------------------------------------------
\* event keys a change is addressed to, in the order they are notified
Addressees == {<<KeyOrder[1]>>, <<CatalogKey>>,
               <<KeyOrder[1], KeyOrder[1]>>}

\* the notifications of a tenant database reach the listeners the server
\* has on it: none while there is no listener or its channel is down
Notified(t, notes) ==
    IF listeners[t] = 0 \/ t \in down THEN <<>> ELSE notes

Change(t, r, kind, ks) ==
    /\ nChanges < MaxChanges
    /\ IF kind = "create" THEN ~store[t][r].live ELSE store[t][r].live
    /\ LET v == store[t][r].ver + 1
           note(i) == [nid |-> nNotes + i, eventkey |-> ks[i],
                       change |-> kind, table |-> r.table, id |-> r.id,
                       ver |-> v]
       IN  /\ store' = [store EXCEPT ![t][r] =
                           [ver |-> v, live |-> kind # "delete"]]
           /\ listenQ' = [listenQ EXCEPT ![t] =
                             @ \o Notified(t, [i \in 1..Len(ks) |-> note(i)])]
    /\ nChanges' = nChanges + 1
    /\ nNotes' = nNotes + Len(ks)
    /\ UNCHANGED <<eventKeys, eventSessions, chan, subs, locks, lockResp,
                   pending, isFetching, outstanding, reqCount,
                   invoked, nLockOps>>
    /\ UNCHANGED <<tenantVars, featherVars, sessions>>

\* ------------------------------------------------------------------------
\* processFetch and receiver
\* ------------------------------------------------------------------------
FetchKey(payload) == [name |-> payload.name, id |-> payload.id]

RECURSIVE SumOver(_, _)
SumOver(f, S) ==
    IF S = {} THEN 0
    ELSE LET x == CHOOSE y \in S : TRUE
         IN  f[x] + SumOver(f, S \ {x})

\* processFetch's guard without the isFetching test
canFetchNoBusy(busy, pend) == Len(pend) > 0

\* if (!isFetching && pending.length)
canFetch(busy, pend) == ~busy /\ Len(pend) > 0

\* processFetch up to the call of datasource.request(job.payload, true)
processFetch(pend, busy, out, rc) ==
    IF canFetch(busy, pend)
    THEN LET job == pend[1]
             k == FetchKey(job.payload)
             req == [rid |-> SumOver(rc, DOMAIN rc) + 1,
                     name |-> job.payload.name, id |-> job.payload.id,
                     tenant |-> job.payload.tenant,
                     state |-> "sent", row |-> NoRow]
         IN  [isFetching |-> TRUE, outstanding |-> out \cup {req},
              reqCount |-> [rc EXCEPT ![k] = @ + 1]]
    ELSE [isFetching |-> busy, outstanding |-> out, reqCount |-> rc]

\* fn(message): the handler's effect, as a record of the invocation
Invocation(fn, message, tenant, row, rid, nreq) ==
    [nid |-> message.nid, eventkey |-> message.eventkey,
     change |-> message.change,
     name |-> toCamelCase(message.table), id |-> message.id,
     tenant |-> tenant, ver |-> message.ver,
     row |-> row, rid |-> rid, nreq |-> nreq, fn |-> fn,
     closed |-> (fn.kind = "ws" /\ chan[fn.ws].state = "closed"),
     deleted |-> FALSE]

\* ------------------------------------------------------------------------
\* what the handlers do when invoked
\* ------------------------------------------------------------------------
\* keys of eventSessions in the order of Object.keys: the handlers of the
\* startup chain, then the client keys
RegistryOrder == <<TenantKey, FeatherKey, CatalogKey>> \o KeyOrder

\* the test of the broadcasts without the sessionID
hasSessionAny(fn) == fn # NoSession

\* if (eventSessions[key].sessionID)
hasSession(fn) == fn # NoSession /\ fn.sessionID # "none"

\* Object.keys(eventSessions).forEach(...) of changeCallback and of the
\* delete branch of the Feather handler
Broadcast(nid, name, deleted) ==
    LET ks == SelectSeq(RegistryOrder,
                        LAMBDA k : hasSession(eventSessions[k]))
    IN  [i \in 1..Len(ks) |->
           [nid |-> nid, eventkey |-> ks[i], change |-> "feather",
            name |-> "Feather", id |-> name, tenant |-> DefaultTenant,
            ver |-> 0, row |-> NoRow, rid |-> 0, nreq |-> 0,
            fn |-> eventSessions[ks[i]],
            closed |-> (eventSessions[ks[i]].kind = "ws" /\
                        chan[eventSessions[ks[i]].ws].state = "closed"),
            deleted |-> deleted]]

\* message.payload.data.name as the Feather handler reads it: the feather
\* of the row fetched (named by its id), undefined without a row
dataName(row) == IF row.found THEN row.id ELSE NoKey

\* the Feather handler's branch that registers nothing
registersRouteNever(c) == FALSE

\* change === "create" || change === "update" in the Feather handler
registersRoute(c) ==
    c.fn.kind = "feather" /\ c.change \in {"create", "update"}

\* registerDataRoute(undefined) raises at key.toSpinalCase(), and
\* registerDataRoute of a feather the catalog copy does not hold raises at
\* catalog[key].isReadOnly
Throws(c) ==
    registersRoute(c) /\
    (dataName(c.row) = NoKey \/ dataName(c.row) \notin catalog)

\* position of the first call that raises, 0 if none does
ThrowAt(calls) ==
    IF \E i \in 1..Len(calls) : Throws(calls[i])
    THEN CHOOSE i \in 1..Len(calls) :
            Throws(calls[i]) /\ \A j \in 1..(i - 1) : ~Throws(calls[j])
    ELSE 0

\* the calls made before an exception ends the forEach
Delivered(calls) ==
    IF ThrowAt(calls) = 0 THEN calls ELSE SubSeq(calls, 1, ThrowAt(calls))

RECURSIVE Nested(_)
\* the calls with the broadcasts the Feather handler makes on a delete
Nested(calls) ==
    IF calls = <<>> THEN <<>>
    ELSE LET c == Head(calls)
         IN  <<c>> \o
             (IF c.fn.kind = "feather" /\ c.change = "delete"
              THEN Broadcast(c.nid, c.id, TRUE) ELSE <<>>) \o
             Nested(Tail(calls))

\* the Tenant handler up to await datasource.loadTenants()
HandlerRun == [src |-> "handler", pc |-> "load", n |-> 0, t |-> "none"]

\* Tenant handlers started by the calls
Started(calls) ==
    [i \in 1..Cardinality({j \in 1..Len(calls) :
                              calls[j].fn.kind = "tenant"}) |-> HandlerRun]

\* datasource.getCatalog() of the calls of the catalog handler
Refreshes(calls) ==
    Cardinality({i \in 1..Len(calls) : calls[i].fn.kind = "catalog"})

\* registerDataRoute(name) of the calls
Registered(rr, calls) ==
    [n \in DOMAIN rr |->
        rr[n] + Cardinality({i \in 1..Len(calls) :
                               registersRoute(calls[i]) /\
                               dataName(calls[i].row) = n})]

\* a getFeather request for every create or update, also when
\* registerDataRoute raised
RequestedAll(calls) ==
    {[nid |-> calls[i].nid, name |-> dataName(calls[i].row),
      state |-> "sent"] :
        i \in {j \in 1..Len(calls) : registersRoute(calls[j])}}

\* datasource.request({name: "getFeather", ...}) of the calls
Requested(calls) ==
    {[nid |-> calls[i].nid, name |-> dataName(calls[i].row),
      state |-> "sent"] :
        i \in {j \in 1..Len(calls) :
                  registersRoute(calls[j]) /\ ~Throws(calls[j])}}

\* receiver without the test of fn
receiverBranchNoGuard(fn, change) ==
    IF fn.fetch = FALSE THEN "direct"
    ELSE IF change \in {"create", "update"} THEN "fetch"
    ELSE "direct"

\* receiver without the test of fn.fetch
receiverBranchNoFlag(fn, change) ==
    IF fn = NoSession THEN "none"
    ELSE IF change \in {"create", "update"} THEN "fetch"
    ELSE "direct"

\* receiver's choice between doing nothing, cb() and a queued fetch
receiverBranch(fn, change) ==
    IF fn = NoSession THEN "none"
    ELSE IF fn.fetch = FALSE THEN "direct"
    ELSE IF change \in {"create", "update"} THEN "fetch"
    ELSE "direct"

\* datasource.listen(tenant, receiver): the tenant's next notification
Receiver(t) ==
    /\ ~exited
    /\ listeners[t] > 0
    /\ listenQ[t] # <<>>
    /\ LET message == Head(listenQ[t])
           fn == eventSessions[message.eventkey]
           branch == receiverBranch(fn, message.change)
           payload == [name |-> toCamelCase(message.table),
                       id |-> message.id, tenant |-> t]
           k == FetchKey(payload)
           inFlight == Cardinality({o \in outstanding :
                                       o.name = k.name /\ o.id = k.id})
           entry == [payload |-> payload, message |-> message, fn |-> fn,
                     seen |-> reqCount[k] - inFlight]
           calls == <<Invocation(fn, message, t, NoRow, 0, 0)>>
       IN  /\ listenQ' = [listenQ EXCEPT ![t] = Tail(@)]
           /\ CASE branch = "none" ->
                     UNCHANGED <<pending, isFetching, outstanding,
                                 reqCount, invoked, runs, catalogReqs>>
                [] branch = "direct" ->
                     /\ invoked' = Nested(calls)
                     /\ runs' = runs \o Started(calls)
                     /\ catalogReqs' = catalogReqs + Refreshes(calls)
                     /\ UNCHANGED <<pending, isFetching, outstanding,
                                    reqCount>>
                [] branch = "fetch" ->
                     LET p == processFetch(Append(pending, entry),
                                  isFetching, outstanding, reqCount)
                     IN  /\ pending' = Append(pending, entry)
                         /\ isFetching' = p.isFetching
                         /\ outstanding' = p.outstanding
                         /\ reqCount' = p.reqCount
                         /\ UNCHANGED <<invoked, runs, catalogReqs>>
    /\ UNCHANGED <<eventKeys, eventSessions, chan, subs, locks, lockResp,
                   store, nChanges, nNotes, nLockOps>>
    /\ UNCHANGED <<tenants, configured, listeners, exited, down,
                   nListenFails, nDrops, routeRegs, featherReqs, catalog,
                   sessions>>

\* the Query Executor reads the row of a request sent to it
Query(o) ==
    /\ ~exited
    /\ o \in outstanding
    /\ o.state = "sent"
    /\ LET tb == CHOOSE x \in Tables \cup MetaTables :
                        toCamelCase(x) = o.name
           rec == IF tb = "tenant"
                  THEN [ver |-> 0, live |-> o.id \in configured]
                  ELSE store[o.tenant][[table |-> tb, id |-> o.id]]
           row == IF rec.live
                  THEN [found |-> TRUE, tenant |-> o.tenant,
                        name |-> o.name, id |-> o.id, ver |-> rec.ver]
                  ELSE NoRow
       IN  outstanding' = (outstanding \ {o}) \cup
                          {[o EXCEPT !.state = "answered", !.row = row]}
    /\ UNCHANGED <<eventKeys, eventSessions, chan, subs, locks, lockResp,
                   store, listenQ, pending, isFetching, reqCount, invoked,
                   nChanges, nNotes, nLockOps>>
    /\ UNCHANGED <<tenantVars, featherVars, sessions>>

\* only the job that was requested is answered
jobsHeadOnly(pend, jobId, jobName) ==
    IF pend = <<>> THEN {} ELSE {1}

\* pending.filter(...): positions of the entries answered by one response
jobs(pend, jobId, jobName) ==
    {i \in 1..Len(pend) :
        pend[i].payload.id = jobId /\ pend[i].payload.name = jobName}

RECURSIVE Pick(_, _, _)
\* the entries of seq at the positions of S (keep) or off them, in order
Pick(seq, S, keep) ==
    IF seq = <<>> THEN <<>>
    ELSE LET n == Len(seq)
             rest == Pick(SubSeq(seq, 1, n - 1), S, keep)
         IN  IF (n \in S) = keep THEN Append(rest, seq[n]) ELSE rest

\* the callbacks of the entries one response answers, in pending's order
Answered(o) ==
    LET served == Pick(pending, jobs(pending, o.id, o.name), TRUE)
        k == [name |-> o.name, id |-> o.id]
    IN  [i \in 1..Len(served) |->
            Invocation(served[i].fn, served[i].message,
                       served[i].payload.tenant, o.row, o.rid,
                       reqCount[k] - served[i].seen)]

\* .then(function (resp) {...}) of processFetch
Resolve(o) ==
    /\ ~exited
    /\ o \in outstanding
    /\ o.state = "answered"
    /\ \E calls \in {Answered(o)} :
       \E done \in {Delivered(calls)} :
       LET js == jobs(pending, o.id, o.name)
           \* the entries spliced off pending before an exception, if any
           spliced == {i \in js :
                          Cardinality({j \in js : j <= i}) <= Len(done)}
           left == Pick(pending, spliced, FALSE)
           out == outstanding \ {o}
           p == IF ThrowAt(calls) = 0
                THEN processFetch(left, FALSE, out, reqCount)
                ELSE [isFetching |-> isFetching, outstanding |-> out,
                      reqCount |-> reqCount]
       IN  /\ pending' = left
           /\ invoked' = Nested(done)
           /\ isFetching' = p.isFetching
           /\ outstanding' = p.outstanding
           /\ reqCount' = p.reqCount
           /\ runs' = runs \o Started(done)
           /\ routeRegs' = Registered(routeRegs, done)
           /\ featherReqs' = featherReqs \cup Requested(done)
    /\ UNCHANGED <<eventKeys, eventSessions, chan, subs, locks, lockResp,
                   store, listenQ, nChanges, nNotes, nLockOps>>
    /\ UNCHANGED <<tenants, configured, listeners, exited, down,
                   nListenFails, nDrops, catalog, catalogReqs, sessions>>

\* .catch(function (e) {console.error(e);}) of processFetch
Reject(o) ==
    /\ ~exited
    /\ o \in outstanding
    /\ o.state = "sent"
    /\ outstanding' = outstanding \ {o}
    /\ UNCHANGED <<eventKeys, eventSessions, chan, subs, locks, lockResp,
                   store, listenQ, pending, isFetching, reqCount, invoked,
                   nChanges, nNotes, nLockOps>>
    /\ UNCHANGED <<tenantVars, featherVars, sessions>>

\* ------------------------------------------------------------------------
\* Tenants: listenToTenants and the handler of subscribeToTenants
\* ------------------------------------------------------------------------
\* a row of the tenant table changes: the subscription of
\* subscribeToTenants is notified through the default database
TenantChange(kind, t) ==
    /\ nChanges < MaxChanges
    /\ CASE kind = "create" -> t \notin configured
         [] kind = "delete" -> t \in configured \ {DefaultTenant}
         [] OTHER -> t \in configured
    /\ configured' = CASE kind = "create" -> configured \cup {t}
                       [] kind = "delete" -> configured \ {t}
                       [] OTHER -> configured
    /\ listenQ' = [listenQ EXCEPT ![DefaultTenant] =
                      @ \o Notified(DefaultTenant,
                              <<[nid |-> nNotes + 1, eventkey |-> TenantKey,
                                 change |-> kind, table |-> "tenant",
                                 id |-> t, ver |-> 0]>>)]
    /\ nChanges' = nChanges + 1
    /\ nNotes' = nNotes + 1
    /\ UNCHANGED <<eventKeys, eventSessions, chan, subs, locks, lockResp,
                   store, pending, isFetching, outstanding, reqCount,
                   invoked, nLockOps>>
    /\ UNCHANGED <<tenants, listeners, runs, exited, down, nListenFails,
                   nDrops, featherVars, sessions>>

Remove(seq, i) == SubSeq(seq, 1, i - 1) \o SubSeq(seq, i + 1, Len(seq))

\* while (n < tenants.length): the next tenant from position n that has
\* no listenerConn, 0 when the loop ends
nextListen(tn, ls, n) ==
    IF \E i \in n..Len(tn) : ls[tn[i]] = 0
    THEN CHOOSE i \in n..Len(tn) :
            ls[tn[i]] = 0 /\ \A j \in n..(i - 1) : ls[tn[j]] # 0
    ELSE 0

\* listenToTenants resumed at position n: it suspends at the next
\* datasource.listen or returns
listenToTenants(rs, i, tn, ls, n) ==
    LET m == nextListen(tn, ls, n)
    IN  IF m = 0 THEN Remove(rs, i)
        ELSE [rs EXCEPT ![i] = ListenRun(rs[i].src, m, tn[m])]

\* tenants = await datasource.loadTenants(); await listenToTenants()
LoadTenantsDone(i) ==
    /\ ~exited
    /\ runs[i].pc = "load"
    /\ tenants' = loadTenants(configured)
    /\ runs' = listenToTenants(runs, i, tenants', listeners, 1)
    /\ UNCHANGED <<eventKeys, eventSessions, chan, subs, locks, lockResp,
                   store, listenQ, pending, isFetching, outstanding,
                   reqCount, invoked, nChanges, nNotes, nLockOps>>
    /\ UNCHANGED <<configured, listeners, exited, down, nListenFails,
                   nDrops, featherVars, sessions>>

\* await datasource.listen(tenant, receiver) returns: the tenant has a
\* listener; n += 1 and the loop goes on
ListenDone(i) ==
    /\ ~exited
    /\ runs[i].pc = "listen"
    /\ listeners' = [listeners EXCEPT ![runs[i].t] = @ + 1]
    /\ runs' = listenToTenants(runs, i, tenants, listeners', runs[i].n + 1)
    /\ UNCHANGED <<eventKeys, eventSessions, chan, subs, locks, lockResp,
                   store, listenQ, pending, isFetching, outstanding,
                   reqCount, invoked, nChanges, nNotes, nLockOps>>
    /\ UNCHANGED <<tenants, configured, exited, down, nListenFails,
                   nDrops, featherVars, sessions>>

\* await datasource.listen(tenant, receiver) throws: catch (err) {return
\* Promise.reject(err);}.  The rejection reaches .catch(process.exit) of
\* the startup chain; that of a Tenant handler is handled nowhere, which
\* ends the process or not with the runtime.
ListenFail(i) ==
    /\ ~exited
    /\ runs[i].pc = "listen"
    /\ nListenFails < MaxListenFails
    /\ nListenFails' = nListenFails + 1
    /\ runs' = Remove(runs, i)
    /\ IF runs[i].src = "start" THEN exited' = TRUE
       ELSE exited' \in BOOLEAN
    /\ UNCHANGED <<eventKeys, eventSessions, chan, subs, locks, lockResp,
                   store, listenQ, pending, isFetching, outstanding,
                   reqCount, invoked, nChanges, nNotes, nLockOps>>
    /\ UNCHANGED <<tenants, configured, listeners, down, nDrops,
                   featherVars, sessions>>

\* ------------------------------------------------------------------------
\* Sessions: sign-out and the inactivity timer
\* ------------------------------------------------------------------------
\* doSignOut: Object.keys(eventSessions).forEach(...) for the instances
\* of the session
signedOut(sid) ==
    LET ks == SelectSeq(RegistryOrder,
                        LAMBDA k : /\ eventSessions[k] # NoSession
                                   /\ eventSessions[k].sessionID = sid)
    IN  [i \in 1..Len(ks) |->
           [nid |-> 0, eventkey |-> ks[i], change |-> "signedOut",
            name |-> "none", id |-> "none", tenant |-> "none",
            ver |-> 0, row |-> NoRow, rid |-> 0, nreq |-> 0,
            fn |-> eventSessions[ks[i]],
            closed |-> (eventSessions[ks[i]].kind = "ws" /\
                        chan[eventSessions[ks[i]].ws].state = "closed"),
            deleted |-> FALSE]]

\* the middleware of an authenticated request: clearTimeout of the timer
\* of the session, then setTimeout of a new one
AuthRequest(sid) ==
    /\ ~exited
    /\ sessions[sid].live
    /\ sessions' = [sessions EXCEPT ![sid].timer = "armed"]
    /\ UNCHANGED <<eventKeys, eventSessions, chan, subs, locks, lockResp,
                   store, listenQ, pending, isFetching, outstanding,
                   reqCount, invoked, nChanges, nNotes, nLockOps>>
    /\ UNCHANGED <<tenantVars, featherVars>>

\* doSignOut on POST sign-out: the instances of the session are told,
\* then req.session.destroy()
DoSignOut(sid) ==
    /\ ~exited
    /\ sessions[sid].live
    /\ invoked' = signedOut(sid)
    /\ sessions' = [sessions EXCEPT ![sid].live = FALSE]
    /\ UNCHANGED <<eventKeys, eventSessions, chan, subs, locks, lockResp,
                   store, listenQ, pending, isFetching, outstanding,
                   reqCount, nChanges, nNotes, nLockOps>>
    /\ UNCHANGED <<tenantVars, featherVars>>

\* the inactivity timer fires: doSignOut(req, res)
SessionTimeout(sid) ==
    /\ ~exited
    /\ sessions[sid].timer = "armed"
    /\ invoked' = signedOut(sid)
    /\ sessions' = [sessions EXCEPT ![sid] =
                       [timer |-> "fired", live |-> FALSE]]
    /\ UNCHANGED <<eventKeys, eventSessions, chan, subs, locks, lockResp,
                   store, listenQ, pending, isFetching, outstanding,
                   reqCount, nChanges, nNotes, nLockOps>>
    /\ UNCHANGED <<tenantVars, featherVars>>

\* ------------------------------------------------------------------------
\* Feathers: the getFeather request of the handler of subscribeToFeathers
\* ------------------------------------------------------------------------
\* .then(changeCallback): every client session is sent the feather
FeatherResolve(q) ==
    /\ ~exited
    /\ q \in featherReqs
    /\ q.state = "sent"
    /\ invoked' = Broadcast(q.nid, q.name, FALSE)
    /\ featherReqs' = featherReqs \ {q}
    /\ UNCHANGED <<eventKeys, eventSessions, chan, subs, locks, lockResp,
                   store, listenQ, pending, isFetching, outstanding,
                   reqCount, nChanges, nNotes, nLockOps>>
    /\ UNCHANGED <<tenantVars, routeRegs, catalog, catalogReqs, sessions>>

\* the getFeather request fails
FeatherFail(q) ==
    /\ q \in featherReqs
    /\ q.state = "sent"
    /\ featherReqs' = (featherReqs \ {q}) \cup {[q EXCEPT !.state = "failed"]}
    /\ UNCHANGED <<eventKeys, eventSessions, chan, subs, locks, lockResp,
                   store, listenQ, pending, isFetching, outstanding,
                   reqCount, invoked, nChanges, nNotes, nLockOps>>
    /\ UNCHANGED <<tenantVars, routeRegs, catalog, catalogReqs, sessions>>

\* .catch(reject): reject of the promise of subscribeToFeathers, which
\* was resolved when the server started
FeatherReject(q) ==
    /\ ~exited
    /\ q \in featherReqs
    /\ q.state = "failed"
    /\ featherReqs' = featherReqs \ {q}
    /\ UNCHANGED <<eventKeys, eventSessions, chan, subs, locks, lockResp,
                   store, listenQ, pending, isFetching, outstanding,
                   reqCount, invoked, nChanges, nNotes, nLockOps>>
    /\ UNCHANGED <<tenantVars, routeRegs, catalog, catalogReqs, sessions>>

\* ------------------------------------------------------------------------
\* Catalog: the getCatalog call of the handler of subscribeToCatalog
\* ------------------------------------------------------------------------
\* datasource.getCatalog() returns: the catalog copy holds the feathers
\* of the default database
CatalogLoaded ==
    /\ ~exited
    /\ catalogReqs > 0
    /\ catalogReqs' = catalogReqs - 1
    /\ catalog' = {n \in Ids :
                     store[DefaultTenant][[table |-> "feather",
                                           id |-> n]].live}
    /\ UNCHANGED <<eventKeys, eventSessions, chan, subs, locks, lockResp,
                   store, listenQ, pending, isFetching, outstanding,
                   reqCount, invoked, nChanges, nNotes, nLockOps>>
    /\ UNCHANGED <<tenantVars, routeRegs, featherReqs, sessions>>

\* datasource.getCatalog() fails: .catch(console.log)
CatalogFail ==
    /\ ~exited
    /\ catalogReqs > 0
    /\ catalogReqs' = catalogReqs - 1
    /\ UNCHANGED <<eventKeys, eventSessions, chan, subs, locks, lockResp,
                   store, listenQ, pending, isFetching, outstanding,
                   reqCount, invoked, nChanges, nNotes, nLockOps>>
    /\ UNCHANGED <<tenantVars, routeRegs, featherReqs, catalog, sessions>>

\* the notification channel of a tenant's listener drops
ListenerDrop(t) ==
    /\ ~exited
    /\ nDrops < MaxDrops
    /\ listeners[t] > 0
    /\ t \notin down
    /\ down' = down \cup {t}
    /\ nDrops' = nDrops + 1
    /\ UNCHANGED <<eventKeys, eventSessions, chan, subs, locks, lockResp,
                   store, listenQ, pending, isFetching, outstanding,
                   reqCount, invoked, nChanges, nNotes, nLockOps>>
    /\ UNCHANGED <<tenants, configured, listeners, runs, exited,
                   nListenFails, featherVars, sessions>>

\* the listener retries and has its channel again
retry(d, t) == d \ {t}

ListenerRetry(t) ==
    /\ ~exited
    /\ t \in down
    /\ down' = retry(down, t)
    /\ UNCHANGED <<eventKeys, eventSessions, chan, subs, locks, lockResp,
                   store, listenQ, pending, isFetching, outstanding,
                   reqCount, invoked, nChanges, nNotes, nLockOps>>
    /\ UNCHANGED <<tenants, configured, listeners, runs, exited,
                   nListenFails, nDrops, featherVars, sessions>>

\* ------------------------------------------------------------------------
\* Specification
\* ------------------------------------------------------------------------
\* registry: doConnect and the web socket handlers, for the given web
\* sockets, databases and event keys
NextRegistry(sockets, dbs, keys) ==
    \/ \E sid \in SessionIDs, t \in dbs : DoConnect(sid, t, keys)
    \/ \E w \in sockets, t \in dbs : WsConnect(w, t)
    \/ \E w \in sockets, k \in keys : WsMessage(w, k)
    \/ \E w \in sockets : WsClose(w)

\* lock, unlock and subscribe requests
NextLocks ==
    \/ \E t \in Tenants : DoSubscribe(t, KeyOrder[1])
    \/ \E t \in Tenants, id \in Ids, u \in Users, k \in ClientKeys :
          DoLock(t, id, u, k)
    \/ \E t \in Tenants, id \in Ids, u \in Users, k \in ClientKeys :
          DoUnlock(t, id, u, k)

\* change notifications and the fetch queue
NextFetch ==
    \/ \E x \in Rows, kind \in Changes, ks \in Addressees :
          Change(x.tenant, x.key, kind, ks)
    \/ \E t \in Tenants : Receiver(t)
    \/ \E o \in outstanding : Query(o)
    \/ \E o \in outstanding : Resolve(o)
    \/ \E o \in outstanding : Reject(o)

\* tenant listeners
NextTenants ==
    \/ \E kind \in Changes, t \in AllTenants : TenantChange(kind, t)
    \/ \E i \in 1..Len(runs) : LoadTenantsDone(i)
    \/ \E i \in 1..Len(runs) : ListenDone(i)
    \/ \E i \in 1..Len(runs) : ListenFail(i)
    \/ \E t \in AllTenants : ListenerDrop(t)
    \/ \E t \in AllTenants : ListenerRetry(t)

\* sign-out and session timeout
NextSessions ==
    \/ \E sid \in SessionIDs : AuthRequest(sid)
    \/ \E sid \in SessionIDs : DoSignOut(sid)
    \/ \E sid \in SessionIDs : SessionTimeout(sid)

\* changes of the feathers and their distribution
NextFeathers ==
    \/ \E r \in FeatherRows, kind \in Changes :
          Change(DefaultTenant, r, kind, <<FeatherKey>>)
    \/ Receiver(DefaultTenant)
    \/ \E o \in outstanding : Query(o)
    \/ \E o \in outstanding : Resolve(o)
    \/ \E q \in featherReqs : FeatherResolve(q)
    \/ \E q \in featherReqs : FeatherFail(q)
    \/ \E q \in featherReqs : FeatherReject(q)

\* changes of a feather and of a record, every request answered
NextDeliver ==
    \/ \E r \in FeatherRows, kind \in Changes :
          Change(DefaultTenant, r, kind, <<FeatherKey>>)
    \/ \E kind \in Changes :
          Change(DefaultTenant, [table |-> "contact", id |-> "R1"], kind,
                 <<KeyOrder[1]>>)
    \/ Receiver(DefaultTenant)
    \/ \E o \in outstanding : Query(o)
    \/ \E o \in outstanding : Resolve(o)
    \/ \E q \in featherReqs : FeatherResolve(q)

\* a change of a feather notifies the Feather handler and, for the
\* catalog it changes, the catalog handler, in either order
FeatherNotes == {<<FeatherKey, CatalogKey>>, <<CatalogKey, FeatherKey>>}

\* changes of the feathers and the refresh of the catalog copy
NextCatalog ==
    \/ \E r \in FeatherRows, kind \in Changes, ks \in FeatherNotes :
          Change(DefaultTenant, r, kind, ks)
    \/ Receiver(DefaultTenant)
    \/ \E o \in outstanding : Query(o)
    \/ \E o \in outstanding : Resolve(o)
    \/ \E q \in featherReqs : FeatherResolve(q)
    \/ CatalogLoaded
    \/ CatalogFail

\* notifications of the records of the tenants
NextRecords ==
    \/ \E t \in Tenants :
          Change(t, [table |-> "contact", id |-> "R1"], "update",
                 <<CatalogKey>>)
    \/ \E t \in Tenants : Receiver(t)
    \/ \E o \in outstanding : Query(o)
    \/ \E o \in outstanding : Resolve(o)

Next ==
    \/ NextRegistry(Channels, Tenants, ClientKeys \cup {InvalidKey})
    \/ NextLocks
    \/ NextFetch
    \/ NextTenants
    \/ NextFeathers
    \/ NextCatalog
    \/ NextSessions

\* the whole server
Spec == Init /\ [][Next]_vars

\* change distribution, with one client on one web socket
SpecFetch ==
    Init /\ [][NextRegistry({SocketOrder[1]}, {DefaultTenant},
                            {KeyOrder[1]}) \/ NextFetch]_vars

\* the tenants from the start of the server on
SpecTenants == InitStart /\ [][NextTenants \/ NextRecords]_vars

\* the same, the timer of a listener's next retry firing in the end
SpecTenantsLive ==
    SpecTenants /\ WF_vars(\E t \in AllTenants : ListenerRetry(t))

\* the registry of event sessions and the sessions that own them
SpecSessions ==
    Init /\ [][NextRegistry(Channels, Tenants, ClientKeys \cup {InvalidKey})
                  \/ NextSessions]_vars

\* change distribution when no request fails, with one client
SpecDeliver ==
    Init /\ [][NextRegistry({SocketOrder[1]}, {DefaultTenant},
                            {KeyOrder[1]}) \/ NextDeliver]_vars

\* feather changes, with two clients
SpecFeather ==
    Init /\ [][NextRegistry(Channels, {DefaultTenant}, ClientKeys)
                  \/ NextFeathers]_vars

\* feather changes and the catalog copy, with one client
SpecCatalog ==
    Init /\ [][NextRegistry({SocketOrder[1]}, {DefaultTenant},
                            {KeyOrder[1]}) \/ NextCatalog]_vars

\* locking and subscriptions, with two web sockets
SpecLock ==
    Init /\ [][NextRegistry(Channels, Tenants, {KeyOrder[1]})
                  \/ NextLocks]_vars

\* ------------------------------------------------------------------------
\* Properties
\* ------------------------------------------------------------------------
\* positions of the pending entries queued for a name and id
Waiting(pend, name, id) ==
    {i \in 1..Len(pend) :
        pend[i].payload.name = name /\ pend[i].payload.id = id}

\* request o of this state is settled by the step
Settled(o) == \A x \in outstanding' : x.rid # o.rid

\* the step is receiver taking the next notification of tenant t
Received(t) == listenQ[t] # <<>> /\ listenQ'[t] = Tail(listenQ[t])

\* C1: when the fetch of a name and id resolves, every entry queued for
\* that name and id - however many notifications arrived before the
\* response - is taken off pending and its callback invoked with that one
\* response, and one request was issued for the key while each waited.
C1_Coalesced ==
    [][\A o \in outstanding :
          (o.state = "answered" /\ Settled(o)) =>
             LET W == Waiting(pending, o.name, o.id)
             IN  /\ Waiting(pending', o.name, o.id) = {}
                 /\ Len(invoked') = Cardinality(W)
                 /\ {invoked'[i].nid : i \in 1..Len(invoked')} =
                       {pending[i].message.nid : i \in W}
                 /\ \A i \in 1..Len(invoked') :
                       /\ invoked'[i].rid = o.rid
                       /\ invoked'[i].row = o.row
                       /\ invoked'[i].nreq = 1]_vars

\* two notifications of one record were answered by one request
C1_Witness ==
    /\ Len(invoked) >= 2
    /\ invoked[1].rid # 0
    /\ invoked[2].rid = invoked[1].rid
    /\ invoked[1].nid # invoked[2].nid

\* C2: at most one request issued by processFetch is outstanding.
C2_OneOutstanding == Cardinality(outstanding) <= 1

\* a request is outstanding while an entry of another key waits
C2_Witness ==
    \E o \in outstanding : \E i \in 1..Len(pending) :
        FetchKey(pending[i].payload) # [name |-> o.name, id |-> o.id]

\* C3: isFetching is set only while a request is outstanding, and queued
\* entries never wait without one, also after a request was rejected.
C3_BusyFlagReleased ==
    outstanding = {} => (~isFetching /\ pending = <<>>)

\* C4: when a request is rejected, the entries waiting on its name and id
\* leave pending and their callbacks are invoked.
C4_FailureReported ==
    [][\A o \in outstanding :
          (o.state = "sent" /\ Settled(o)) =>
             /\ Waiting(pending', o.name, o.id) = {}
             /\ Len(invoked') = Cardinality(Waiting(pending, o.name, o.id))
             /\ \A i \in 1..Len(invoked') : invoked'[i].rid = o.rid]_vars

\* C5: a fetched response is never handed to the handler of a web socket
\* that has closed.
C5_ClosedChannelNoop ==
    \A i \in 1..Len(invoked) : invoked[i].rid # 0 => ~invoked[i].closed

\* C6: receiver given a message whose event key has no handler changes
\* nothing: no invocation, no pending entry, no request.
C6_NoHandlerNoop ==
    [][\A t \in Tenants :
          (Received(t) /\
           eventSessions[Head(listenQ[t]).eventkey] = NoSession) =>
             UNCHANGED <<pending, isFetching, outstanding, reqCount,
                         invoked, eventSessions, chan>>]_vars

\* every notification emitted was received, and none reached a handler
\* or the queue
C6_Witness ==
    /\ nNotes > 0
    /\ \A t \in Tenants : listenQ[t] = <<>>
    /\ pending = <<>>
    /\ invoked = <<>>

\* C8: a row handed to a handler for a create or update was read from
\* the tenant's store no earlier than the change notified.
C8_FreshCopy ==
    \A i \in 1..Len(invoked) :
        (/\ invoked[i].rid # 0
         /\ invoked[i].row.found
         /\ invoked[i].row.tenant = invoked[i].tenant) =>
            invoked[i].row.ver >= invoked[i].ver

\* C9: for a handler with fetch = false, receiver invokes the handler at
\* once with the message as received, whatever the change, and leaves
\* pending and the requests alone.
C9_NoFetchDirect ==
    [][\A t \in Tenants :
          (Received(t) /\
           eventSessions[Head(listenQ[t]).eventkey] # NoSession /\
           eventSessions[Head(listenQ[t]).eventkey].fetch = FALSE) =>
             LET message == Head(listenQ[t])
             IN  /\ Len(invoked') = 1
                 /\ invoked'[1].nid = message.nid
                 /\ invoked'[1].change = message.change
                 /\ invoked'[1].row = NoRow
                 /\ invoked'[1].rid = 0
                 /\ invoked'[1].fn = eventSessions[message.eventkey]
                 /\ UNCHANGED <<pending, isFetching, outstanding,
                                reqCount>>]_vars

\* the catalog handler was invoked for an update
C9_Witness ==
    /\ Len(invoked) = 1
    /\ invoked[1].fn.fetch = FALSE
    /\ invoked[1].change = "update"
    /\ invoked[1].rid = 0

\* C7: when the web socket of event key K closes, K being a key of any
\* tenant, no lock owned by K remains in that tenant's database.
C7_CloseReleasesLocks ==
    [][\A w \in Channels :
          (/\ chan[w].state = "open"
           /\ chan'[w].state = "closed"
           /\ chan[w].eKey \in ClientKeys
           /\ eventSessions[chan[w].eKey] # NoSession
           /\ eventSessions[chan[w].eKey].ws = w
           /\ eventKeys[chan[w].eKey].tenant = chan[w].url) =>
             \A l \in locks' :
                ~(l.eventKey = chan[w].eKey /\ l.tenant = chan[w].url)]_vars

\* C10: a record has at most one lock in a tenant database, and a lock
\* request for a record held under another event key answers LockHeld
\* and changes no lock.
C10_OneLockPerRecord ==
    /\ [](\A l1, l2 \in locks :
             (l1.tenant = l2.tenant /\ l1.id = l2.id) => l1 = l2)
    /\ [][(nLockOps' = nLockOps + 1 /\ lockResp'.result # "unlocked") =>
             \A l \in locks :
                (/\ l.tenant = lockResp'.request.tenant
                 /\ l.id = lockResp'.request.id
                 /\ l.eventKey # lockResp'.request.eventKey) =>
                    /\ lockResp'.result = "LockHeld"
                    /\ lockResp'.lock = l
                    /\ locks' = locks]_vars

\* a request was refused because another event key holds the record
C10_Witness ==
    /\ lockResp.result = "LockHeld"
    /\ lockResp.lock \in locks
    /\ lockResp.lock.eventKey # lockResp.request.eventKey

\* C11: a lock leaves the lock store, outside the teardown of a web
\* socket, only by an unlock request sent by the client instance whose
\* event key owns the lock; an unlock sent from another event key leaves
\* it in place.
C11_UnlockByOwnerOnly ==
    [][\A l \in locks :
          (l \notin locks' /\ chan' = chan) =>
             /\ lockResp'.result = "unlocked"
             /\ nLockOps' = nLockOps + 1
             /\ lockResp'.request.eventKey = l.eventKey]_vars

\* C12: when datasource.listen fails for a tenant, the process keeps
\* running and listenToTenants goes on to the tenants of the list that
\* have no listener yet.
C12_ListenFailureIsolated ==
    [][nListenFails' = nListenFails + 1 =>
          /\ ~exited'
          /\ (\E k \in 1..Len(tenants) :
                 /\ listeners[tenants[k]] = 0
                 /\ \A i \in 1..Len(runs) : runs[i].t # tenants[k]) =>
                Len(runs') = Len(runs)]_vars

\* C13: no tenant ever has more than one listener, however the Tenant
\* handlers and the start of the server interleave.
C13_OneListenerPerTenant ==
    \A t \in AllTenants : listeners[t] <= 1

\* C14: receiver is handed no notification of a tenant that is no
\* longer in the server's list of tenants.
C14_RemovedTenantSilent ==
    [][\A t \in Tenants :
          Received(t) => \E k \in 1..Len(tenants) : tenants[k] = t]_vars

\* C15: a tenant whose notification channel dropped has it again in the
\* end.
C15_Reconnects ==
    \A t \in AllTenants : (t \in down) ~> (t \notin down)

C18_CloseRemovesRegistrations ==
    [][\A w \in Channels :
          (chan[w].state = "open" /\ chan'[w].state = "closed") =>
             \A k \in AllKeys :
                ~(eventSessions'[k].kind = "ws" /\
                  eventSessions'[k].ws = w)]_vars

\* C19: when a session ends, by sign-out or by its timer, eventSessions
\* holds no entry of that session any more.
C19_SessionEndRemovesEntries ==
    [][\A sid \in SessionIDs :
          (sessions[sid].live /\ ~sessions'[sid].live) =>
             \A k \in AllKeys : eventSessions'[k].sessionID # sid]_vars

\* C20: when every request is answered, no entry is left waiting: with
\* no notification to receive and no request outstanding, pending is
\* empty and isFetching is false.
C20_PendingDrains ==
    (outstanding = {} /\ \A t \in Tenants : listenQ[t] = <<>>) =>
        (pending = <<>> /\ ~isFetching)

\* C21: a create or update addressed to a handler whose fetch flag is not
\* false invokes nothing when received: it is queued, and the handler is
\* invoked for it only by the step that resolves a request for the
\* record in its tenant, with the row of that response.  A delete invokes
\* the handler at once and issues no request.
C21_FetchBeforeNotify ==
    /\ [][\A t \in Tenants :
             (Received(t) /\
              eventSessions[Head(listenQ[t]).eventkey] # NoSession /\
              eventSessions[Head(listenQ[t]).eventkey].fetch # FALSE) =>
                LET message == Head(listenQ[t])
                IN  IF message.change \in {"create", "update"}
                    THEN /\ UNCHANGED invoked
                         /\ Len(pending') = Len(pending) + 1
                         /\ pending'[Len(pending')].message = message
                    ELSE /\ Len(invoked') >= 1
                         /\ invoked'[1].nid = message.nid
                         /\ invoked'[1].rid = 0
                         /\ UNCHANGED <<pending, outstanding,
                                        reqCount>>]_vars
    /\ [][\A i \in 1..Len(invoked') :
             (/\ invoked' # invoked
              /\ invoked'[i].change \in {"create", "update"}
              /\ invoked'[i].fn.fetch # FALSE) =>
                \E o \in outstanding :
                   /\ o.state = "answered"
                   /\ Settled(o)
                   /\ o.tenant = invoked'[i].tenant
                   /\ invoked'[i].rid = o.rid
                   /\ invoked'[i].row = o.row
                   /\ \E j \in 1..Len(pending) :
                         pending[j].message.nid = invoked'[i].nid]_vars

\* C28: when a resolved fetch hands the Feather handler the create of a
\* feather, the catalog copy holds that feather, so registerDataRoute
\* does not raise on a missing catalog entry.
C28_CatalogHasFeather ==
    [][(\E o \in outstanding : o.state = "answered" /\ Settled(o)) =>
          \A i \in 1..Len(invoked') :
             (/\ invoked'[i].fn.kind = "feather"
              /\ invoked'[i].change = "create"
              /\ invoked'[i].row.found) =>
                invoked'[i].row.id \in catalog]_vars

\* C22: the getFeather request of a Feather create or update is made in
\* a step in which registerDataRoute ran for that feather with the
\* feather in the catalog copy, and which broadcasts nothing for the
\* change; the "feather" broadcast of the change is made only by a later
\* step that settles that request.
C22_RouteBeforeBroadcast ==
    /\ [][\A q \in featherReqs' \ featherReqs :
             q.state = "sent" =>
                /\ q.name \in catalog
                /\ routeRegs'[q.name] > routeRegs[q.name]
                /\ \A i \in 1..Len(invoked') :
                      ~(/\ invoked'[i].change = "feather"
                        /\ invoked'[i].nid = q.nid
                        /\ ~invoked'[i].deleted)]_vars
    /\ [][invoked' # invoked =>
             \A i \in 1..Len(invoked') :
                (invoked'[i].change = "feather" /\ ~invoked'[i].deleted) =>
                   \E q \in featherReqs :
                      /\ q.state = "sent"
                      /\ q.nid = invoked'[i].nid
                      /\ q.name = invoked'[i].id
                      /\ q \notin featherReqs'
                      /\ routeRegs[q.name] >= 1]_vars

\* a client session was sent a feather whose route had been registered
C22_Witness ==
    /\ Len(invoked) >= 1
    /\ invoked[1].change = "feather"
    /\ ~invoked[1].deleted
    /\ invoked[1].fn.kind = "ws"
    /\ routeRegs[invoked[1].id] >= 1

\* C23: while pending is not empty, the request of pending[0] is
\* outstanding: processFetch requests the head of the queue, and the
\* queue never waits without a request.
C23_HeadIsFetched ==
    pending # <<>> =>
        \E o \in outstanding :
           /\ o.name = pending[1].payload.name
           /\ o.id = pending[1].payload.id
           /\ o.tenant = pending[1].payload.tenant

\* C24: a row handed to a callback was fetched from the tenant whose
\* notification queued the callback.
C24_TenantIsolation ==
    \A i \in 1..Len(invoked) :
        (invoked[i].rid # 0 /\ invoked[i].row.found) =>
            invoked[i].row.tenant = invoked[i].tenant

\* C25: the handler of an event key is invoked for its notifications in
\* the order receiver was given them: receiver invokes it at once only
\* when no earlier notification of the key waits in pending, and a
\* response is not delivered to an entry while an earlier entry of the
\* same key stays in pending.
C25_InOrderPerKey ==
    /\ [][\A t \in Tenants :
             (/\ Received(t)
              /\ eventSessions[Head(listenQ[t]).eventkey] # NoSession
              /\ pending' = pending) =>
                \A j \in 1..Len(pending) :
                   pending[j].message.eventkey #
                      Head(listenQ[t]).eventkey]_vars
    /\ [][\A o \in outstanding :
             (o.state = "answered" /\ Settled(o)) =>
                \A i \in Waiting(pending, o.name, o.id) :
                   \A j \in 1..(i - 1) :
                      pending[j].message.eventkey =
                         pending[i].message.eventkey =>
                            j \in Waiting(pending, o.name, o.id)]_vars

\* C26: when a callback raises while a response is delivered, every
\* entry waiting on the name and id of the response is still taken off
\* pending and invoked, and isFetching is true afterwards only for a
\* new request.
C26_ThrowIsolated ==
    [][\A o \in outstanding :
          (/\ o.state = "answered"
           /\ Settled(o)
           /\ \E i \in 1..Len(invoked') : Throws(invoked'[i])) =>
             /\ Waiting(pending', o.name, o.id) = {}
             /\ Cardinality({i \in 1..Len(invoked') :
                                invoked'[i].rid = o.rid}) =
                   Cardinality(Waiting(pending, o.name, o.id))
             /\ isFetching' => outstanding' # {}]_vars

\* C27: the close of a web socket leaves alone the registration, the
\* subscriptions and the locks of every event key that is registered
\* through another web socket that is open.
C27_CloseOnlyOwnKey ==
    [][\A w \in Channels :
          (chan[w].state = "open" /\ chan'[w].state = "closed") =>
             \A k \in ClientKeys :
                (/\ eventSessions[k].kind = "ws"
                 /\ eventSessions[k].ws # w
                 /\ chan[eventSessions[k].ws].state = "open") =>
                    /\ eventSessions'[k] = eventSessions[k]
                    /\ {x \in subs' : x.eventKey = k} =
                          {x \in subs : x.eventKey = k}
                    /\ {l \in locks' : l.eventKey = k} =
                          {l \in locks : l.eventKey = k}]_vars

\* C29: a session that has signed out has no inactivity timer armed, and
\* doSignOut does not run for it again: its event sessions are sent no
\* second signedOut.
C29_NoTimerAfterSignOut ==
    /\ [](\A sid \in SessionIDs :
             ~sessions[sid].live => sessions[sid].timer # "armed")
    /\ [][\A sid \in SessionIDs :
             (~sessions[sid].live /\ sessions' # sessions) =>
                \A i \in 1..Len(invoked') :
                   ~(/\ invoked'[i].change = "signedOut"
                     /\ invoked'[i].fn.sessionID = sid)]_vars

====
